---- MODULE Spec2Model ----
(***************************************************************************)
(* Model of pmgrestclient (src/pmgrestclient/__init__.py): the ApiBase     *)
(* REST client, its dispatch routine _call with the 404 retry loop and the *)
(* error classification, ApiCallException, the response handlers and      *)
(* download_file.                                                          *)
(*                                                                         *)
(* Python values are tagged records so that values of different Python     *)
(* types can be compared: None_, PyInt, PyStr, PyBool, PyTuple, PyList, PyDict. *)
(***************************************************************************)
EXTENDS Integers, Sequences, FiniteSets, TLC

VARIABLES
    base,                \* ApiBase.base
    error_code_type,     \* ApiBase.error_code_type: the set of its members
    errors_by_code,      \* ApiBase.errors_by_code
    stat404retry_count,  \* ApiBase.stat404retry_count
    stat404retry_delay,  \* ApiBase.stat404retry_delay
    pc,                  \* position of the running operation
    call,                \* _call: the transport function (verb)
    path,                \* _call: path argument
    path_abs,            \* _call: path_abs argument
    response_handler,    \* _call: response_handler argument
    i,                   \* _call: loop variable
    res,                 \* _call: last response received (NoResponse if unbound)
    result,              \* value returned to the caller
    exc,                 \* exception that reached the caller
    trace,               \* observable events of the running operation, in order
    source_url,          \* download_file: source_url argument
    local_path,          \* download_file: local_path
    stream,              \* download_file: blocks resp.iter_content has yet to yield
    file                 \* download_file: the file at local_path and its handle

vars == <<base, error_code_type, errors_by_code, stat404retry_count,
          stat404retry_delay, pc, call, path, path_abs, response_handler,
          i, res, result, exc, trace, source_url, local_path, stream, file>>

callargs == <<call, path, path_abs, response_handler>>

download == <<source_url, local_path, stream, file>>

config == <<base, error_code_type, errors_by_code, stat404retry_count,
            stat404retry_delay>>

-----------------------------------------------------------------------------
(* Bounds of the model *)

MaxRetry == 2
MaxDelay == 1
MaxBlocks == 2

-----------------------------------------------------------------------------
(* Python values *)

None_ == [t |-> "None"]
PyInt(n) == [t |-> "int", n |-> n]
PyStr(s) == [t |-> "str", s |-> s]
PyBool(b) == [t |-> "bool", b |-> b]
PyTuple(elems) == [t |-> "tuple", elems |-> elems]
PyList(items) == [t |-> "list", items |-> items]
PyDict(pairs) == [t |-> "dict", pairs |-> pairs]

\* dict.get(key): the value stored under key, None when the key is absent
DictGet(d, key) ==
    IF \E p \in d.pairs : p[1] = key
    THEN (CHOOSE p \in d.pairs : p[1] = key)[2]
    ELSE None_

\* hash(v) succeeds: lists and dicts are unhashable
Hashable(v) == v.t \notin {"list", "dict"}

\* x or 0, as used on the retry arguments
OrZero(x) == IF x = None_ \/ x = PyInt(0) THEN 0 ELSE x.n

-----------------------------------------------------------------------------
(* ApiCallException *)

\* ApiCallException(error_code_type, **kwargs): kwargs is a record holding
\* exactly the keyword arguments given
ApiCallException(kwargs) ==
    [type |-> "ApiCallException",
     given_args |-> kwargs,
     url |-> IF "url" \in DOMAIN kwargs THEN kwargs.url ELSE None_]

\* an exception of another class that reaches the caller
OtherException(class) ==
    [type |-> class, given_args |-> [class |-> PyStr(class)], url |-> None_]

NoException == [type |-> "", given_args |-> [none |-> None_], url |-> None_]

\* ApiCallException.EmptyError
EmptyError == [t |-> "EmptyError", name |-> None_, value |-> None_]

status_code(e) ==
    IF "status_code" \in DOMAIN e.given_args THEN e.given_args.status_code ELSE None_

error(e) ==
    IF "error" \in DOMAIN e.given_args THEN e.given_args.error ELSE EmptyError

response_body(e) ==
    IF "response_body" \in DOMAIN e.given_args
    THEN e.given_args.response_body ELSE PyDict({})

\* self.abort(**kwargs): always raises
abort(kwargs) == ApiCallException(kwargs)

-----------------------------------------------------------------------------
(* The error enumeration *)

\* members of an Enum whose values are tuples; value.elems[1] is e.value[0]
Member(name, code, text) ==
    [t |-> "member", name |-> PyStr(name), value |-> PyTuple(<<PyStr(code), PyStr(text)>>)]

AllMembers ==
    { Member("MISSING", "NOT_FOUND", "resource missing"),
      Member("CLASH", "CONFLICT", "resource clash") }

\* the enumeration types a client is built with (plain Enum has no member)
ErrorCodeTypes == SUBSET AllMembers

\* {e.value[0]: e for e in error_code_type}
ErrorsByCode(type) ==
    [c \in {e.value.elems[1] : e \in type} |->
        CHOOSE e \in type : e.value.elems[1] = c]

-----------------------------------------------------------------------------
(* Responses *)

\* response bodies as sent by a server
Texts ==
    { "", "<html>oops</html>", "[\"x\"]", "{}", "{\"ok\": true}",
      "{\"error\": \"NOT_FOUND\"}", "{\"error\": \"CONFLICT\"}",
      "{\"error\": \"OTHER\"}", "{\"error\": null}", "{\"error\": [\"x\"]}" }

\* texts that json.loads accepts
ValidJson == Texts \ {"", "<html>oops</html>"}

\* resp.json() on a text of ValidJson
Loads(text) ==
    CASE text = "[\"x\"]" -> PyList(<<PyStr("x")>>)
      [] text = "{}" -> PyDict({})
      [] text = "{\"ok\": true}" -> PyDict({<<"ok", PyBool(TRUE)>>})
      [] text = "{\"error\": \"NOT_FOUND\"}" -> PyDict({<<"error", PyStr("NOT_FOUND")>>})
      [] text = "{\"error\": \"CONFLICT\"}" -> PyDict({<<"error", PyStr("CONFLICT")>>})
      [] text = "{\"error\": \"OTHER\"}" -> PyDict({<<"error", PyStr("OTHER")>>})
      [] text = "{\"error\": null}" -> PyDict({<<"error", None_>>})
      [] text = "{\"error\": [\"x\"]}" -> PyDict({<<"error", PyList(<<PyStr("x")>>)>>})

Statuses == {200, 299, 300, 400, 404}

Headers == PyDict({<<"Content-Type", PyStr("application/json")>>})

Response(status, text) == [status_code |-> status, text |-> text, headers |-> Headers]

Responses == { Response(s, b) : s \in Statuses, b \in Texts }

NoResponse == [status_code |-> 0, text |-> "", headers |-> PyDict({})]

\* json(resp): the decoded body, {} when decoding raises JSONDecodeError
json(resp) == IF resp.text \in ValidJson THEN Loads(resp.text) ELSE PyDict({})

json_response_handler(r) == json(r)

json_status_response_hander(r) == PyTuple(<<json(r), PyInt(r.status_code)>>)

json_headers_response_hander(r) == PyTuple(<<json(r), r.headers>>)

Handlers ==
    {"json_response_handler", "json_status_response_hander",
     "json_headers_response_hander"}

\* response_handler(res) for the handler of that name
Handle(h, r) ==
    CASE h = "json_response_handler" -> json_response_handler(r)
      [] h = "json_status_response_hander" -> json_status_response_hander(r)
      [] h = "json_headers_response_hander" -> json_headers_response_hander(r)

-----------------------------------------------------------------------------
(* The local file download_file writes *)

\* the file at local_path before the download
InitialFiles ==
    { [exists |-> FALSE, content |-> <<>>, open |-> FALSE],
      [exists |-> TRUE, content |-> <<"old">>, open |-> FALSE] }

-----------------------------------------------------------------------------
(* ApiBase.__init__ *)

Bases == {"http://api"}

\* values given for stat404retry_count and stat404retry_delay
RetryCountArgs == {None_} \cup {PyInt(n) : n \in 0..MaxRetry}
RetryDelayArgs == {None_} \cup {PyInt(n) : n \in 0..MaxDelay}

\* the state after ApiBase(b, type, count, delay)
Constructed(b, type, count, delay) ==
    /\ base = b
    /\ error_code_type = type
    /\ stat404retry_count = OrZero(count)
    /\ stat404retry_delay = OrZero(delay)
    /\ errors_by_code = ErrorsByCode(type)

Init ==
    /\ \E b \in Bases, type \in ErrorCodeTypes,
          count \in RetryCountArgs, delay \in RetryDelayArgs :
            Constructed(b, type, count, delay)
    /\ pc = "idle"
    /\ call = ""
    /\ path = ""
    /\ path_abs = FALSE
    /\ response_handler = "json_response_handler"
    /\ i = 0
    /\ res = NoResponse
    /\ result = None_
    /\ exc = NoException
    /\ trace = <<>>
    /\ source_url = ""
    /\ local_path = ""
    /\ stream = <<>>
    /\ file \in InitialFiles

-----------------------------------------------------------------------------
(* ApiBase._call *)

\* self._url(path, path_abs)
_url(p, abs) == IF ~abs THEN base \o "/" \o p ELSE p

\* self.response_error_code(response): response.get('error'); only dicts
\* have get
HasGet(resp_j) == resp_j.t = "dict"
response_error_code(resp_j) == DictGet(resp_j, "error")

\* error in self.errors_by_code, for a hashable error
InErrorsByCode(err) == err \in DOMAIN errors_by_code

\* (path, path_abs) pairs callers pass
PathArgs == { <<"items/1", FALSE>>, <<"http://other/items/1", TRUE>> }

Idle == pc = "idle"

\* entry of _call(call, path, path_abs=..., response_handler=...): the
\* for loop starts with i = 0 when range(0, stat404retry_count + 1) is not
\* empty, and is skipped otherwise
_call(c, p, abs, h) ==
    /\ Idle
    /\ call' = c
    /\ path' = p
    /\ path_abs' = abs
    /\ response_handler' = h
    /\ i' = 0
    /\ res' = NoResponse
    /\ result' = None_
    /\ exc' = NoException
    /\ trace' = <<>>
    /\ pc' = IF 0 < stat404retry_count + 1 THEN "request" ELSE "classify"
    /\ UNCHANGED <<config, download>>

get == \E pa \in PathArgs, h \in Handlers : _call("get", pa[1], pa[2], h)
delete == \E pa \in PathArgs, h \in Handlers : _call("delete", pa[1], pa[2], h)
put == \E pa \in PathArgs, h \in Handlers : _call("put", pa[1], pa[2], h)
post == \E pa \in PathArgs, h \in Handlers : _call("post", pa[1], pa[2], h)
patch == \E pa \in PathArgs, h \in Handlers : _call("patch", pa[1], pa[2], h)

RequestEvent == [ev |-> "request", call |-> call, url |-> _url(path, path_abs)]

\* line 89: the transport function returns a response
Request ==
    /\ pc = "request"
    /\ \E r \in Responses :
        /\ res' = r
        /\ trace' = trace \o <<RequestEvent, [ev |-> "response", status |-> r.status_code]>>
    /\ pc' = "status"
    /\ UNCHANGED <<config, callargs, i, result, exc, download>>

\* lines 90-91 with the path given to abort in place of the resolved URL
Mut_RequestConnectionError ==
    /\ pc = "request"
    /\ exc' = abort([message |-> PyStr("Connection error"), url |-> PyStr(path)])
    /\ trace' = trace \o <<RequestEvent, [ev |-> "raised", class |-> "ConnectionError"]>>
    /\ pc' = "raised"
    /\ UNCHANGED <<config, callargs, i, res, result, download>>

\* lines 90-91: the transport function raises requests ConnectionError
RequestConnectionError ==
    /\ pc = "request"
    /\ exc' = abort([message |-> PyStr("Connection error"),
                     url |-> PyStr(_url(path, path_abs))])
    /\ trace' = trace \o <<RequestEvent, [ev |-> "raised", class |-> "ConnectionError"]>>
    /\ pc' = "raised"
    /\ UNCHANGED <<config, callargs, i, res, result, download>>

\* lines 92-93 with the response_handler argument ignored
Mut_ReturnResponse ==
    /\ pc = "status"
    /\ 200 <= res.status_code /\ res.status_code <= 299
    /\ result' = json_response_handler(res)
    /\ pc' = "returned"
    /\ UNCHANGED <<config, callargs, i, res, exc, trace, download>>

\* lines 92-93
ReturnResponse ==
    /\ pc = "status"
    /\ 200 <= res.status_code /\ res.status_code <= 299
    /\ result' = Handle(response_handler, res)
    /\ pc' = "returned"
    /\ UNCHANGED <<config, callargs, i, res, exc, trace, download>>

\* lines 94-97 without the test i < stat404retry_count
Mut_Retry404_Unbounded ==
    /\ pc = "status"
    /\ ~(200 <= res.status_code /\ res.status_code <= 299)
    /\ res.status_code = 404
    /\ trace' = trace \o <<[ev |-> "warning", n |-> i + 1],
                           [ev |-> "sleep", secs |-> stat404retry_delay]>>
    /\ i' = i + 1
    /\ pc' = IF i + 1 < stat404retry_count + 1 THEN "request" ELSE "classify"
    /\ UNCHANGED <<config, callargs, res, result, exc, download>>

\* lines 94-97 without the test res.status_code == 404
Mut_Retry404_AnyStatus ==
    /\ pc = "status"
    /\ ~(200 <= res.status_code /\ res.status_code <= 299)
    /\ i < stat404retry_count
    /\ trace' = trace \o <<[ev |-> "warning", n |-> i + 1],
                           [ev |-> "sleep", secs |-> stat404retry_delay]>>
    /\ i' = i + 1
    /\ pc' = IF i + 1 < stat404retry_count + 1 THEN "request" ELSE "classify"
    /\ UNCHANGED <<config, callargs, res, result, exc, download>>

\* lines 94-97, then the next iteration of line 87
Retry404 ==
    /\ pc = "status"
    /\ ~(200 <= res.status_code /\ res.status_code <= 299)
    /\ res.status_code = 404 /\ i < stat404retry_count
    /\ trace' = trace \o <<[ev |-> "warning", n |-> i + 1],
                           [ev |-> "sleep", secs |-> stat404retry_delay]>>
    /\ i' = i + 1
    /\ pc' = IF i + 1 < stat404retry_count + 1 THEN "request" ELSE "classify"
    /\ UNCHANGED <<config, callargs, res, result, exc, download>>

\* line 98 with the warning of line 95 logged for every 404
Mut_Break ==
    /\ pc = "status"
    /\ ~(200 <= res.status_code /\ res.status_code <= 299)
    /\ ~(res.status_code = 404 /\ i < stat404retry_count)
    /\ trace' = IF res.status_code = 404
                THEN Append(trace, [ev |-> "warning", n |-> i + 1])
                ELSE trace
    /\ pc' = "classify"
    /\ UNCHANGED <<config, callargs, i, res, result, exc, download>>

\* line 98
Break ==
    /\ pc = "status"
    /\ ~(200 <= res.status_code /\ res.status_code <= 299)
    /\ ~(res.status_code = 404 /\ i < stat404retry_count)
    /\ pc' = "classify"
    /\ UNCHANGED <<config, callargs, i, res, result, exc, trace, download>>

ErrorLogEvent == [ev |-> "error", path |-> path, body |-> json(res)]

\* lines 100-106 with the code given to abort in place of the member
Mut_ClassifyKnown ==
    /\ pc = "classify"
    /\ res # NoResponse
    /\ LET resp_j == json(res) IN
        /\ HasGet(resp_j)
        /\ Hashable(response_error_code(resp_j))
        /\ InErrorsByCode(response_error_code(resp_j))
        /\ exc' = abort([status_code |-> PyInt(res.status_code),
                         error |-> response_error_code(resp_j),
                         url |-> PyStr(_url(path, path_abs)),
                         response_body |-> resp_j])
    /\ trace' = Append(trace, ErrorLogEvent)
    /\ pc' = "raised"
    /\ UNCHANGED <<config, callargs, i, res, result, download>>

\* lines 100-106: the error code is a key of errors_by_code
ClassifyKnown ==
    /\ pc = "classify"
    /\ res # NoResponse
    /\ LET resp_j == json(res) IN
        /\ HasGet(resp_j)
        /\ Hashable(response_error_code(resp_j))
        /\ InErrorsByCode(response_error_code(resp_j))
        /\ exc' = abort([status_code |-> PyInt(res.status_code),
                         error |-> errors_by_code[response_error_code(resp_j)],
                         url |-> PyStr(_url(path, path_abs)),
                         response_body |-> resp_j])
    /\ trace' = Append(trace, ErrorLogEvent)
    /\ pc' = "raised"
    /\ UNCHANGED <<config, callargs, i, res, result, download>>

\* lines 100-104 and 109: the error code is no key of errors_by_code
ClassifyUnknown ==
    /\ pc = "classify"
    /\ res # NoResponse
    /\ LET resp_j == json(res) IN
        /\ HasGet(resp_j)
        /\ Hashable(response_error_code(resp_j))
        /\ ~InErrorsByCode(response_error_code(resp_j))
        /\ exc' = abort([status_code |-> PyInt(res.status_code),
                         url |-> PyStr(_url(path, path_abs))])
    /\ trace' = Append(trace, ErrorLogEvent)
    /\ pc' = "raised"
    /\ UNCHANGED <<config, callargs, i, res, result, download>>

\* lines 101-104 raise an exception that is no ValueError, so that the
\* except clause of line 107 lets it through: AttributeError when the
\* decoded body has no get, TypeError when the error code is unhashable
\* (and UnboundLocalError at line 101, before the log, had the loop not run)
ClassifyRaises ==
    /\ pc = "classify"
    /\ LET resp_j == json(res) IN
        /\ ~(res # NoResponse /\ HasGet(resp_j) /\ Hashable(response_error_code(resp_j)))
        /\ exc' = IF res = NoResponse THEN OtherException("UnboundLocalError")
                  ELSE IF ~HasGet(resp_j) THEN OtherException("AttributeError")
                  ELSE OtherException("TypeError")
    /\ trace' = IF res = NoResponse THEN trace ELSE Append(trace, ErrorLogEvent)
    /\ pc' = "raised"
    /\ UNCHANGED <<config, callargs, i, res, result, download>>

-----------------------------------------------------------------------------
(* ApiBase.download_file *)

\* a URL as its '/'-separated pieces, the last one the final path segment
SourceUrls == { <<"http://files", "a.bin">>, <<"http://files", "img", "a.bin">> }

LocalDirs == {"/tmp"}

RECURSIVE JoinSlash(_)
JoinSlash(segs) ==
    IF Len(segs) = 1 THEN segs[1]
    ELSE segs[1] \o "/" \o JoinSlash(Tail(segs))

\* join_path(local_dir, source_url[source_url.rfind('/') + 1:])
LocalPath(segs, dir) == dir \o "/" \o segs[Len(segs)]

\* blocks iter_content(1024) yields: never an empty one
Blocks == {"b1", "b2"}

RECURSIVE SeqsUpTo(_, _)
SeqsUpTo(S, n) ==
    IF n = 0 THEN {<<>>}
    ELSE SeqsUpTo(S, n - 1) \cup
         { Append(q, x) : q \in {p \in SeqsUpTo(S, n - 1) : Len(p) = n - 1}, x \in S }

Bodies == SeqsUpTo(Blocks, MaxBlocks)

\* resp.ok: raise_for_status() raises for statuses from 400 on
ok(r) == r.status_code < 400

\* lines 71-72: open(local_path, 'wb') creates or truncates the file
DownloadOpen ==
    /\ Idle
    /\ \E segs \in SourceUrls, dir \in LocalDirs :
        /\ source_url' = JoinSlash(segs)
        /\ local_path' = LocalPath(segs, dir)
        /\ trace' = <<[ev |-> "open", file |-> LocalPath(segs, dir)]>>
    /\ file' = [exists |-> TRUE, content |-> <<>>, open |-> TRUE]
    /\ stream' = <<>>
    /\ res' = NoResponse
    /\ result' = None_
    /\ exc' = NoException
    /\ pc' = "dl_request"
    /\ UNCHANGED <<config, callargs, i>>

DownloadRequestEvent == [ev |-> "request", call |-> "get", url |-> source_url]

\* lines 73-74 and 76: the response is ok, iteration over its body starts
DownloadRequest ==
    /\ pc = "dl_request"
    /\ \E r \in Responses, body \in Bodies :
        /\ ok(r)
        /\ res' = r
        /\ stream' = body
        /\ trace' = trace \o <<DownloadRequestEvent,
                               [ev |-> "response", status |-> r.status_code],
                               [ev |-> "iter_content", blocks |-> body]>>
    /\ pc' = "dl_write"
    /\ UNCHANGED <<config, callargs, i, result, exc, source_url, local_path, file>>

\* lines 73-75 with the file opened outside a with block
Mut_DownloadNotOk ==
    /\ pc = "dl_request"
    /\ \E r \in Responses :
        /\ ~ok(r)
        /\ res' = r
        /\ exc' = ApiCallException([status_code |-> PyInt(r.status_code),
                                    url |-> PyStr(source_url)])
        /\ trace' = trace \o <<DownloadRequestEvent,
                               [ev |-> "response", status |-> r.status_code]>>
    /\ pc' = "raised"
    /\ UNCHANGED <<config, callargs, i, result, source_url, local_path, stream, file>>

\* lines 73-75: the response is not ok; leaving the with block closes the file
DownloadNotOk ==
    /\ pc = "dl_request"
    /\ \E r \in Responses :
        /\ ~ok(r)
        /\ res' = r
        /\ exc' = ApiCallException([status_code |-> PyInt(r.status_code),
                                    url |-> PyStr(source_url)])
        /\ trace' = trace \o <<DownloadRequestEvent,
                               [ev |-> "response", status |-> r.status_code],
                               [ev |-> "close", file |-> local_path]>>
    /\ file' = [file EXCEPT !.open = FALSE]
    /\ pc' = "raised"
    /\ UNCHANGED <<config, callargs, i, result, source_url, local_path, stream>>

\* line 73: requests.get raises; no except clause, the with block closes the file
DownloadConnectionError ==
    /\ pc = "dl_request"
    /\ exc' = OtherException("ConnectionError")
    /\ trace' = trace \o <<DownloadRequestEvent,
                           [ev |-> "raised", class |-> "ConnectionError"],
                           [ev |-> "close", file |-> local_path]>>
    /\ file' = [file EXCEPT !.open = FALSE]
    /\ pc' = "raised"
    /\ UNCHANGED <<config, callargs, i, res, result, source_url, local_path, stream>>

\* lines 76-79: one iteration of the for loop
DownloadWrite ==
    /\ pc = "dl_write"
    /\ stream # <<>>
    /\ LET block == Head(stream) IN
        IF block = ""
        THEN /\ pc' = "dl_return"
             /\ UNCHANGED <<file, trace>>
        ELSE /\ file' = [file EXCEPT !.content = Append(@, block)]
             /\ trace' = Append(trace, [ev |-> "write", block |-> block])
             /\ pc' = "dl_write"
    /\ stream' = Tail(stream)
    /\ UNCHANGED <<config, callargs, i, res, result, exc, source_url, local_path>>

\* line 76: iter_content raises while the body is read; the with block
\* closes the file
DownloadStreamError ==
    /\ pc = "dl_write"
    /\ exc' = OtherException("ChunkedEncodingError")
    /\ trace' = trace \o <<[ev |-> "raised", class |-> "ChunkedEncodingError"],
                           [ev |-> "close", file |-> local_path]>>
    /\ file' = [file EXCEPT !.open = FALSE]
    /\ pc' = "raised"
    /\ UNCHANGED <<config, callargs, i, res, result, source_url, local_path, stream>>

\* end of the for loop (or its break), end of the with block, line 80
DownloadReturn ==
    /\ \/ pc = "dl_write" /\ stream = <<>>
       \/ pc = "dl_return"
    /\ file' = [file EXCEPT !.open = FALSE]
    /\ trace' = Append(trace, [ev |-> "close", file |-> local_path])
    /\ result' = PyStr(local_path)
    /\ pc' = "returned"
    /\ UNCHANGED <<config, callargs, i, res, exc, source_url, local_path, stream>>

-----------------------------------------------------------------------------

Next ==
    \/ get \/ delete \/ put \/ post \/ patch
    \/ Request \/ RequestConnectionError
    \/ ReturnResponse \/ Retry404 \/ Break
    \/ ClassifyKnown \/ ClassifyUnknown \/ ClassifyRaises
    \/ DownloadOpen \/ DownloadRequest \/ DownloadNotOk \/ DownloadConnectionError
    \/ DownloadWrite \/ DownloadStreamError \/ DownloadReturn

Spec == Init /\ [][Next]_vars

-----------------------------------------------------------------------------
(* Observations on a run *)

InCall == call # ""
InDownload == source_url # ""
Terminated == pc \in {"returned", "raised"}

Is2xx(r) == 200 <= r.status_code /\ r.status_code <= 299

Positions(ev) == { k \in DOMAIN trace : trace[k].ev = ev }
Attempts == Cardinality(Positions("request"))
Warnings == Cardinality(Positions("warning"))
Sleeps == Cardinality(Positions("sleep"))
Errors == Cardinality(Positions("error"))

\* requests issued up to position k of the trace
AttemptsUpTo(k) == Cardinality({ r \in Positions("request") : r <= k })

\* position of the last response received, 0 when there is none
LastResponse ==
    IF Positions("response") = {} THEN 0
    ELSE CHOOSE k \in Positions("response") : \A m \in Positions("response") : m <= k

\* the URL the request of a dispatch call goes to
ResolvedUrl == IF path_abs THEN path ELSE base \o "/" \o path

\* the call reached the error classification of its final response
Classified == pc = "raised" /\ trace # <<>> /\ trace[Len(trace)].ev = "error"

\* the transport failed with a connection error
ConnectionFailed == \E k \in Positions("raised") : trace[k].class = "ConnectionError"

\* a dispatch call failed on its final response
FinalFailure == InCall /\ pc = "raised" /\ ~ConnectionFailed

\* the blocks of the downloaded body, <<>> before the body is iterated
BodyBlocks ==
    IF Positions("iter_content") = {} THEN <<>>
    ELSE trace[CHOOSE k \in Positions("iter_content") : TRUE].blocks

-----------------------------------------------------------------------------
(* C1: as soon as an attempt of the dispatch routine receives a response   *)
(* with status in [200,299], the next step of the call returns exactly     *)
(* response_handler(that response), without a further request, warning or  *)
(* sleep and without raising, whatever the retry configuration; and        *)
(* nothing happens after the return.                                       *)

C1_SuccessReturnsHandlerValue ==
    [][ /\ (InCall /\ pc = "status" /\ Is2xx(res)) =>
            /\ pc' = "returned"
            /\ result' = Handle(response_handler, res)
            /\ res' = res
            /\ trace' = trace
            /\ exc' = NoException
        /\ (InCall /\ pc = "returned") => FALSE ]_vars

\* a 2xx response after a 404 retry, with retries left, returned through
\* the (body, status) handler
C1_Witness ==
    /\ InCall /\ pc = "returned"
    /\ 1 <= i /\ i < stat404retry_count
    /\ response_handler = "json_status_response_hander"
    /\ result = PyTuple(<<PyDict({<<"ok", PyBool(TRUE)>>}), PyInt(200)>>)

-----------------------------------------------------------------------------
(* C2: in a dispatch call, every 404 response received while fewer than    *)
(* retry_count retries have been made is followed by a warning, one sleep  *)
(* of retry_delay and another attempt; there is exactly one sleep between  *)
(* two consecutive attempts and none after the last; the call reaches      *)
(* classification of a 404 only when retry_count + 1 attempts all returned *)
(* 404; never more than retry_count + 1 attempts are made.                 *)

C2_Retry404 ==
    InCall =>
        /\ Attempts <= stat404retry_count + 1
        /\ \A k \in Positions("response") :
            (trace[k].status = 404 /\ AttemptsUpTo(k) <= stat404retry_count) =>
                \/ k = Len(trace) /\ pc = "status"
                \/ /\ k + 2 <= Len(trace)
                   /\ trace[k + 1].ev = "warning"
                   /\ trace[k + 2] = [ev |-> "sleep", secs |-> stat404retry_delay]
                   /\ \/ k + 2 = Len(trace) /\ pc = "request"
                      \/ k + 2 < Len(trace) /\ trace[k + 3].ev = "request"
        /\ \A a \in Positions("request") :
            LET later == { b \in Positions("request") : b > a } IN
            IF later = {}
            THEN pc # "request" => { s \in Positions("sleep") : s > a } = {}
            ELSE LET b == CHOOSE x \in later : \A y \in later : x <= y IN
                 Cardinality({ s \in Positions("sleep") : a < s /\ s < b }) = 1
        /\ \A s \in Positions("sleep") : trace[s].secs = stat404retry_delay
        /\ (pc \in {"classify", "raised"} /\ ~ConnectionFailed /\ res.status_code = 404) =>
            /\ Attempts = stat404retry_count + 1
            /\ \A k \in Positions("response") : trace[k].status = 404

\* retry_count >= 1 retries exhausted: every attempt returned 404 and the
\* call failed with status 404
C2_Witness ==
    /\ InCall /\ pc = "raised"
    /\ stat404retry_count >= 1 /\ stat404retry_delay >= 1
    /\ status_code(exc) = PyInt(404)
    /\ Attempts = stat404retry_count + 1
    /\ Sleeps = stat404retry_count

-----------------------------------------------------------------------------
(* C3: when an attempt of a dispatch call receives a response whose status *)
(* is neither in [200,299] nor 404, no request, warning or sleep follows   *)
(* it: the call goes to error classification of that response and fails,   *)
(* also after earlier 404 retries and with retries left.                   *)

C3_NoRetryOnOtherFailure ==
    (InCall /\ res # NoResponse /\ ~Is2xx(res) /\ res.status_code # 404) =>
        /\ pc \in {"status", "classify", "raised"}
        /\ trace[LastResponse].status = res.status_code
        /\ \A k \in DOMAIN trace : k > LastResponse => trace[k].ev = "error"
        /\ pc \in {"status", "classify"} => LastResponse = Len(trace)
        /\ pc = "raised" =>
            /\ exc # NoException
            /\ result = None_
            /\ Len(trace) = LastResponse + 1
            /\ trace[Len(trace)] = [ev |-> "error", path |-> path, body |-> json(res)]

\* a 400 after a 404 retry, with retries left
C3_Witness ==
    /\ InCall /\ pc = "raised"
    /\ 1 <= i /\ i < stat404retry_count
    /\ res.status_code = 400
    /\ status_code(exc) = PyInt(400)

-----------------------------------------------------------------------------
(* C4: a connection error of the transport on any attempt of a dispatch    *)
(* call ends the call at once with an ApiCallException whose only          *)
(* arguments are the message 'Connection error' and the resolved URL (no   *)
(* status code, no domain error, no response body); nothing follows it: no *)
(* request, no sleep, no body decoding and no error log.                   *)

C4_ConnectionErrorAborts ==
    \A k \in Positions("raised") :
        (InCall /\ trace[k].class = "ConnectionError") =>
            /\ k = Len(trace)
            /\ pc = "raised"
            /\ exc.type = "ApiCallException"
            /\ exc.given_args = [message |-> PyStr("Connection error"),
                                 url |-> PyStr(ResolvedUrl)]
            /\ exc.url = PyStr(ResolvedUrl)
            /\ status_code(exc) = None_
            /\ error(exc) = EmptyError
            /\ response_body(exc) = PyDict({})
            /\ result = None_
            /\ Errors = 0
            /\ Sleeps = Attempts - 1

\* a connection error on the attempt that follows a 404 retry
C4_Witness ==
    /\ InCall /\ pc = "raised" /\ ConnectionFailed
    /\ i >= 1 /\ res.status_code = 404
    /\ res.text = "{\"error\": \"NOT_FOUND\"}"
    /\ errors_by_code # <<>>
    /\ path_abs = FALSE /\ exc.url = PyStr("http://api/items/1")

-----------------------------------------------------------------------------
(* C5: when a dispatch call fails on a final response (status outside      *)
(* [200,299], a 404 with retries exhausted included) whose body decodes to *)
(* a JSON object whose `error` value is a key of errors_by_code, the       *)
(* ApiCallException carries that response's status, the enumeration member *)
(* with that code, the resolved URL and the decoded body.                  *)

C5_KnownErrorCode ==
    LET resp_j == json(res)
        code == DictGet(resp_j, "error")
    IN  /\ (FinalFailure /\ resp_j.t = "dict" /\ code \in DOMAIN errors_by_code) =>
            /\ ~Is2xx(res)
            /\ exc.type = "ApiCallException"
            /\ DOMAIN exc.given_args = {"status_code", "error", "url", "response_body"}
            /\ status_code(exc) = PyInt(res.status_code)
            /\ error(exc) \in error_code_type
            /\ error(exc).value.elems[1] = code
            /\ exc.url = PyStr(ResolvedUrl)
            /\ response_body(exc) = resp_j
        /\ (FinalFailure /\ res.text = "{\"error\": \"NOT_FOUND\"}"
                /\ Member("MISSING", "NOT_FOUND", "resource missing") \in error_code_type) =>
            /\ error(exc) = Member("MISSING", "NOT_FOUND", "resource missing")
            /\ response_body(exc) = PyDict({<<"error", PyStr("NOT_FOUND")>>})

\* a 404 whose retries are exhausted, with a known code in its body
C5_Witness ==
    /\ FinalFailure
    /\ stat404retry_count >= 1 /\ i = stat404retry_count
    /\ status_code(exc) = PyInt(404)
    /\ error(exc) = Member("CLASH", "CONFLICT", "resource clash")
    /\ response_body(exc) = PyDict({<<"error", PyStr("CONFLICT")>>})

-----------------------------------------------------------------------------
(* C6: when a dispatch call fails on a final response whose body is not    *)
(* valid JSON, or is a JSON object whose `error` value is absent or is no  *)
(* key of errors_by_code, the ApiCallException carries only the status     *)
(* code and the URL: its error is the empty placeholder and its            *)
(* response_body the empty mapping.                                        *)

C6_NoMatch ==
    \/ res.text \notin ValidJson
    \/ /\ res.text \in ValidJson
       /\ json(res).t = "dict"
       /\ DictGet(json(res), "error") \notin DOMAIN errors_by_code

C6_UnmatchedIsGeneric ==
    (FinalFailure /\ C6_NoMatch) =>
        /\ exc.type = "ApiCallException"
        /\ exc.given_args = [status_code |-> PyInt(res.status_code),
                             url |-> PyStr(ResolvedUrl)]
        /\ error(exc) = EmptyError
        /\ response_body(exc) = PyDict({})

-----------------------------------------------------------------------------
(* C7: every dispatch call that fails raises ApiCallException, whatever    *)
(* the transport failure, the status code and the body of the response.    *)

C7_SingleFailureType ==
    (InCall /\ pc = "raised") => exc.type = "ApiCallException"

-----------------------------------------------------------------------------
(* C8: in a dispatch call one warning is logged per 404 retry, right after *)
(* the 404 response and right before the sleep; an error is logged only at *)
(* the classification of a final response outside [200,299], and there    *)
(* once; a call that returns logs no error.                                *)

C8_Logging ==
    InCall =>
        /\ Warnings = IF pc = "request" THEN Attempts ELSE Attempts - 1
        /\ \A w \in Positions("warning") :
            /\ w > 1 /\ trace[w - 1] = [ev |-> "response", status |-> 404]
            /\ w < Len(trace) /\ trace[w + 1].ev = "sleep"
        /\ Errors <= 1
        /\ Errors = 1 =>
            /\ pc = "raised" /\ ~ConnectionFailed /\ ~Is2xx(res)
            /\ trace[Len(trace)].ev = "error"
            /\ LastResponse = Len(trace) - 1
        /\ FinalFailure => Errors = 1
        /\ pc = "returned" => Errors = 0

\* retry_count = 2, retry_delay = 0, responses 404, 404, 200 {"ok": true}
C8_Witness ==
    /\ InCall /\ pc = "returned"
    /\ stat404retry_count = 2 /\ stat404retry_delay = 0
    /\ Attempts = 3
    /\ result = PyDict({<<"ok", PyBool(TRUE)>>})
    /\ Warnings = 2 /\ Errors = 0

-----------------------------------------------------------------------------
(* C9: download_file issues one request whatever the retry configuration;  *)
(* on a response that is not ok it raises ApiCallException with the status *)
(* code and the source URL, has written nothing and leaves the file it     *)
(* created in place; on an ok response it writes the blocks of the body in *)
(* order and returns the local path; the file handle is closed on every    *)
(* exit.                                                                   *)

C9_Download ==
    InDownload =>
        /\ Attempts <= 1
        /\ Terminated => Attempts = 1
        /\ file.exists
        /\ file.open <=> ~Terminated
        /\ Terminated => trace[Len(trace)] = [ev |-> "close", file |-> local_path]
        /\ (res # NoResponse /\ ~ok(res)) =>
            /\ pc = "raised"
            /\ exc.type = "ApiCallException"
            /\ exc.given_args = [status_code |-> PyInt(res.status_code),
                                 url |-> PyStr(source_url)]
            /\ exc.url = PyStr(source_url)
            /\ file.content = <<>>
            /\ Positions("write") = {}
            /\ result = None_
        /\ (res # NoResponse /\ ok(res)) =>
            /\ file.content \o stream = BodyBlocks
            /\ exc.type # "ApiCallException"
        /\ pc = "returned" =>
            /\ ok(res)
            /\ file.content = BodyBlocks
            /\ result = PyStr("/tmp/a.bin")
            /\ exc = NoException

\* a 404 on a client configured with 404 retries, the file existing before
C9_Witness ==
    /\ InDownload /\ pc = "raised"
    /\ stat404retry_count >= 1
    /\ res.status_code = 404
    /\ status_code(exc) = PyInt(404)
    /\ Attempts = 1
    /\ file = [exists |-> TRUE, content |-> <<>>, open |-> FALSE]

-----------------------------------------------------------------------------
(* C10: a dispatch call never stops before it returned or raised, makes at *)
(* least 1 and at most retry_count + 1 attempts, and ends in exactly one   *)
(* of two ways: it returns the handler's value for a 2xx response, or it   *)
(* raises ApiCallException while its last response, if any, is not 2xx; it *)
(* never returns None by falling off the end of the routine.               *)

C10_OneOutcome ==
    InCall =>
        /\ ~Terminated => ENABLED Next
        /\ Attempts <= stat404retry_count + 1
        /\ Terminated =>
            /\ 1 <= Attempts
            /\ \/ /\ pc = "returned"
                  /\ Is2xx(res)
                  /\ result = Handle(response_handler, res)
                  /\ result # None_
                  /\ exc = NoException
               \/ /\ pc = "raised"
                  /\ exc.type = "ApiCallException"
                  /\ result = None_
                  /\ ~Is2xx(res)

====
